---- MODULE Spec2Model ----
(***************************************************************************)
(* A model of apt2ostree/ninja.py: the Ninja generation session (target    *)
(* registry, global variables, rule table, generator dependencies, the     *)
(* temporary output file and its rename) and the Rule class bound to it.   *)
(*                                                                         *)
(* Conventions.                                                            *)
(*  - A path is a sequence of components: "conf/x.cfg" is <<"conf",        *)
(*    "x.cfg">>, the empty string is <<>>.  All paths are relative to the  *)
(*    working directory.                                                   *)
(*  - A template string is a sequence of tokens, one per path component or *)
(*    word: a literal, $name, ${name}, $$ or a stray $.                    *)
(*  - A Python value that may be None, a string or a list is a tagged      *)
(*    record (PyNone, PyStr, PyList).  An optional keyword value is <<>>   *)
(*    for None and <<v>> for v.                                            *)
(*  - A keyword dict is a sequence of <<key, value>> pairs in insertion    *)
(*    order.                                                               *)
(*  - sha256(str(x)) is ToString(x): equal digests iff equal str().        *)
(*  - An operation on the session s returns [s, exc, ret]: the session     *)
(*    after it, the exception it raised ("None" if it returned) and its    *)
(*    return value.                                                        *)
(***************************************************************************)
EXTENDS Integers, Sequences, FiniteSets, TLC

VARIABLES
    global_vars,      \* self.global_vars: key -> value
    targets,          \* self.targets: path -> rulehash
    rules,            \* self.rules: name -> <<args, kwargs>>
    generator_deps,   \* self.generator_deps: set of paths
    output,           \* lines written to self.output (ninjafile + '~')
    closed,           \* self.output.closed
    renames,          \* number of os.rename(ninjafile + '~', ninjafile) done
    manifest,         \* the file write_gitignore wrote last
    standalone,       \* self.standalone
    debug,            \* self.debug
    phase,            \* "live", or "finalized" once __del__ has run
    ncalls,           \* number of calls made on the session so far
    errored,          \* some declaration has raised a fatal error
    last              \* the last call: its name, arguments and outcome

vars == <<global_vars, targets, rules, generator_deps, output, closed, renames,
          manifest, standalone, debug, phase, ncalls, errored, last>>

-----------------------------------------------------------------------------
(* Bounds *)

\* calls made on one session
MaxCalls == 3

-----------------------------------------------------------------------------
(* Python values *)

PyNone == [tag |-> "None"]
PyStr(x) == [tag |-> "str", v |-> x]
PyList(xs) == [tag |-> "list", v |-> xs]

\* ninja_syntax.as_list
as_list(x) ==
    IF x.tag = "None" THEN <<>>
    ELSE IF x.tag = "list" THEN x.v
    ELSE <<x.v>>

Opt(x) == <<x>>
NoneOpt == <<>>

Range(f) == {f[i] : i \in DOMAIN f}

\* dict: keys, lookup, assignment (an existing key keeps its position)
Keys(d) == {d[i][1] : i \in DOMAIN d}
Get(d, k) == LET i == CHOOSE j \in DOMAIN d : d[j][1] = k IN d[i][2]
Put(d, k, v) ==
    IF k \in Keys(d)
        THEN [i \in DOMAIN d |-> IF d[i][1] = k THEN <<k, v>> ELSE d[i]]
        ELSE Append(d, <<k, v>>)

\* d1 == d2 on dicts: the same items, in any order
dict_eq(d1, d2) == Range(d1) = Range(d2)

\* the order sorted() gives the keys of the model
KeyOrder == <<"_args_digest", "a", "b", "c", "implicit", "implicit_outputs",
              "order_only", "pool", "variables">>
KeyRank(k) == CHOOSE i \in DOMAIN KeyOrder : KeyOrder[i] = k

\* sorted(d.items())
RECURSIVE sorted_items(_)
sorted_items(d) ==
    IF d = <<>> THEN <<>>
    ELSE LET i == CHOOSE j \in DOMAIN d :
                      \A k \in DOMAIN d : KeyRank(d[j][1]) <= KeyRank(d[k][1])
             rest == [j \in 1..(Len(d) - 1) |-> IF j < i THEN d[j] ELSE d[j + 1]]
         IN <<d[i]>> \o sorted_items(rest)

\* hashlib.sha256(str(x).encode('utf-8')).hexdigest()
sha256(x) == ToString(x)

-----------------------------------------------------------------------------
(* Paths *)

\* os.path.normpath on a relative path, as os.path.relpath applies it
RECURSIVE normpath_from(_, _)
normpath_from(done, rest) ==
    IF rest = <<>> THEN done
    ELSE LET c == Head(rest) IN
         IF c = "." THEN normpath_from(done, Tail(rest))
         ELSE IF c = ".." /\ done # <<>> /\ done[Len(done)] # ".."
             THEN normpath_from(SubSeq(done, 1, Len(done) - 1), Tail(rest))
         ELSE normpath_from(Append(done, c), Tail(rest))

\* os.path.dirname
dirname(p) == IF p = <<>> THEN <<>> ELSE SubSeq(p, 1, Len(p) - 1)

RECURSIVE strip_common(_, _)
strip_common(p, start) ==
    IF p # <<>> /\ start # <<>> /\ Head(p) = Head(start)
        THEN strip_common(Tail(p), Tail(start))
        ELSE <<p, start>>

\* os.path.relpath(p, start); start <<>> is the working directory
relpath(p, start) ==
    LET np == normpath_from(<<>>, p)
        ns == normpath_from(<<>>, start)
        sc == strip_common(np, ns)
        r  == [i \in 1..Len(sc[2]) |-> ".."] \o sc[1]
    IN IF r = <<>> THEN <<".">> ELSE r

\* str.replace('.pyc', '.py') on the file names of the model
pyc_to_py(c) ==
    IF c = "gen.pyc" THEN "gen.py"
    ELSE IF c = "ninja.pyc" THEN "ninja.py"
    ELSE c

replace_pyc(p) == [i \in DOMAIN p |-> pyc_to_py(p[i])]

-----------------------------------------------------------------------------
(* Outcomes *)

NoExc == "None"
InvalidTarget == "RuntimeError: Invalid target filename"
DuplicateTarget == "DuplicateTarget: Duplicate target with different rule"
VariableRedefinition == "RuntimeError: Setting key when it was already set"
RuleRedefinition == "AssertionError"
MissingArguments == "TypeError: Missing arguments to rule"
UnexpectedArguments == "TypeError: Rule got unexpected arguments"
BadEscape == "RuntimeError: bad $-escape"
OutputTypeMismatch == "AssertionError: len(outputs)"
ClosedFile == "ValueError: I/O operation on closed file"
NoPath == "ValueError: no path specified"
ENOENT == "IOError: ENOENT"
EACCES == "IOError: EACCES"

\* the fatal declaration errors of the error-handling design
FatalErrors == {InvalidTarget, DuplicateTarget, VariableRedefinition,
                RuleRedefinition, MissingArguments, UnexpectedArguments,
                BadEscape, OutputTypeMismatch}

Ok(s, ret) == [s |-> s, exc |-> NoExc, ret |-> ret]
Raise(s, e) == [s |-> s, exc |-> e, ret |-> <<>>]

-----------------------------------------------------------------------------
(* Module constants *)

NINJA_AUTO_VARS == {"in", "out", "_args_digest"}
ALREADY_WRITTEN == "ALREADY_WRITTEN"
\* rulehash=None
NoRuleHash == "None"
\* Ninja.builddir
builddir == "_build"
\* the ninjafile argument of Ninja.__init__
ninjafile == <<"build.ninja">>
\* __file__ and ninja_syntax.__file__
module_file == <<"apt2ostree", "ninja.py">>
ninja_syntax_file == <<"apt2ostree", "ninja_syntax.py">>

-----------------------------------------------------------------------------
(* The graph writer: ninja_syntax.Writer over self.output *)

\* self.output.write
write(s, line) ==
    IF s.closed THEN Raise(s, ClosedFile)
    ELSE Ok([s EXCEPT !.output = Append(@, line)], <<>>)

Writer_newline(s) == write(s, [kind |-> "newline"])

Writer_variable(s, key, value, indent) ==
    write(s, [kind |-> "variable", key |-> key, value |-> value, indent |-> indent])

Writer_rule(s, name, args, kwargs) ==
    write(s, [kind |-> "rule", name |-> name, args |-> args, kwargs |-> kwargs])

Writer_build(s, outputs, rule, inputs, kwargs) ==
    LET w == write(s, [kind |-> "build", outputs |-> outputs, rule |-> rule,
                       inputs |-> inputs, kwargs |-> kwargs])
    IN IF w.exc # NoExc THEN w ELSE Ok(w.s, outputs)

Writer_close(s) == Ok([s EXCEPT !.closed = TRUE], <<>>)

-----------------------------------------------------------------------------
(* class Ninja *)

\* add_generator_dep that forgets the dependencies recorded before
add_generator_dep_forgets(s, filename) ==
    IF filename = <<>> THEN Raise(s, NoPath)
    ELSE Ok([s EXCEPT !.generator_deps = {replace_pyc(relpath(filename, <<>>))}],
            <<>>)

add_generator_dep(s, filename) ==
    IF filename = <<>> THEN Raise(s, NoPath)
    ELSE Ok([s EXCEPT !.generator_deps =
                 @ \cup {replace_pyc(relpath(filename, <<>>))}], <<>>)

\* add_target without the check for a registered target
add_target_overwrites(s, target, rulehash) ==
    IF target = <<>>
        THEN Raise(s, InvalidTarget)
        ELSE Ok([s EXCEPT !.targets =
                     (target :> rulehash) @@
                     [q \in DOMAIN @ \ {target} |-> @[q]]], "None")

add_target(s, target, rulehash) ==
    IF target = <<>>
        THEN Raise(s, InvalidTarget)
    ELSE IF target \in DOMAIN s.targets
        THEN IF s.targets[target] = rulehash
                 THEN Ok(s, ALREADY_WRITTEN)
                 ELSE Raise(s, DuplicateTarget)
    ELSE Ok([s EXCEPT !.targets = (target :> rulehash) @@ @], "None")

\* variable without the check of self.global_vars
variable_unchecked(s, key, value, indent) ==
    LET s1 == IF indent = 0
                  THEN [s EXCEPT !.global_vars =
                            (key :> value) @@ [k \in DOMAIN @ \ {key} |-> @[k]]]
                  ELSE s
    IN Writer_variable(s1, key, value, indent)

variable(s, key, value, indent) ==
    IF indent = 0 /\ key \in DOMAIN s.global_vars
        THEN IF value # s.global_vars[key]
                 THEN Raise(s, VariableRedefinition)
                 ELSE Ok(s, <<>>)
    ELSE LET s1 == IF indent = 0
                       THEN [s EXCEPT !.global_vars = (key :> value) @@ @]
                       ELSE s
         IN Writer_variable(s1, key, value, indent)

\* the loop over the outputs: "written" when it ran to its end, "return" when
\* it returned the outputs early
RECURSIVE build_add_targets(_, _, _, _)
build_add_targets(s, outputs, rulehash, allow_non_identical_duplicates) ==
    IF outputs = <<>> THEN Ok(s, "written")
    ELSE LET r == add_target(s, Head(outputs), rulehash) IN
         IF r.exc = DuplicateTarget
             THEN IF allow_non_identical_duplicates
                      THEN Ok(r.s, "return")
                      ELSE r
         ELSE IF r.exc # NoExc THEN r
         ELSE IF r.ret = ALREADY_WRITTEN THEN Ok(r.s, "return")
         ELSE build_add_targets(r.s, Tail(outputs), rulehash,
                                allow_non_identical_duplicates)

build(s, outputs0, rule, inputs0, allow_non_identical_duplicates, kwargs) ==
    LET outputs == as_list(outputs0)
        inputs == as_list(inputs0)
        rulehash == sha256(<<rule, inputs, sorted_items(kwargs)>>)
        t == build_add_targets(s, outputs, rulehash,
                               allow_non_identical_duplicates)
    IN IF t.exc # NoExc THEN t
       ELSE IF t.ret = "return" THEN Ok(t.s, outputs)
       ELSE LET c == IF t.s.debug
                         THEN write(t.s, [kind |-> "comment"])
                         ELSE Ok(t.s, <<>>)
            IN IF c.exc # NoExc THEN c
               ELSE Writer_build(c.s, outputs, rule, inputs, kwargs)

\* rule without the assertion on a registered name
rule_unchecked(s, name, args, kwargs) ==
    IF name \in DOMAIN s.rules
        THEN Ok(s, <<>>)
        ELSE Writer_rule([s EXCEPT !.rules = (name :> <<args, kwargs>>) @@ @],
                         name, args, kwargs)

rule(s, name, args, kwargs) ==
    IF name \in DOMAIN s.rules
        THEN IF s.rules[name][1] = args /\ dict_eq(s.rules[name][2], kwargs)
                 THEN Ok(s, <<>>)
                 ELSE Raise(s, RuleRedefinition)
    ELSE Writer_rule([s EXCEPT !.rules = (name :> <<args, kwargs>>) @@ @],
                     name, args, kwargs)

\* list(a set): some fixed order of its elements
RECURSIVE list_of(_)
list_of(S) ==
    IF S = {} THEN <<>>
    ELSE LET x == CHOOSE y \in S : TRUE IN <<x>> \o list_of(S \ {x})

\* close without the check of self.output.closed
close_unguarded(s) ==
    LET b == IF s.standalone
                 THEN build([s EXCEPT !.closed = FALSE], PyStr(ninjafile),
                            "configure", PyList(list_of(s.generator_deps)),
                            FALSE, <<>>)
                 ELSE Ok(s, <<>>)
    IN IF b.exc # NoExc THEN b
       ELSE LET c == Writer_close(b.s)
            IN Ok([c.s EXCEPT !.renames = @ + 1], <<>>)

close(s) ==
    IF s.closed THEN Ok(s, <<>>)
    ELSE LET b == IF s.standalone
                      THEN build(s, PyStr(ninjafile), "configure",
                                 PyList(list_of(s.generator_deps)), FALSE, <<>>)
                      ELSE Ok(s, <<>>)
         IN IF b.exc # NoExc THEN b
            ELSE LET c == Writer_close(b.s)
                 IN Ok([c.s EXCEPT !.renames = @ + 1], <<>>)

\* open(filename, mode) of the builtins: the file system decides the outcome
builtin_open(s, filename, outcome) ==
    IF outcome = "ok" THEN Ok(s, <<>>) ELSE Raise(s, outcome)

\* open that records the missing file itself, not its directory
open_tracks_missing_file(s, filename, mode, outcome) ==
    LET t == IF mode = "w" THEN add_target(s, filename, NoRuleHash)
                           ELSE Ok(s, <<>>)
    IN IF t.exc # NoExc THEN t
       ELSE IF mode = "r"
           THEN LET o == builtin_open(t.s, filename, outcome) IN
                IF o.exc = NoExc THEN add_generator_dep(o.s, filename)
                ELSE IF o.exc = ENOENT
                    THEN Raise(add_generator_dep(o.s, filename).s, ENOENT)
                ELSE o
       ELSE builtin_open(t.s, filename, outcome)

open(s, filename, mode, outcome) ==
    LET t == IF mode = "w" THEN add_target(s, filename, NoRuleHash)
                           ELSE Ok(s, <<>>)
    IN IF t.exc # NoExc THEN t
       ELSE IF mode = "r"
           THEN LET o == builtin_open(t.s, filename, outcome) IN
                IF o.exc = NoExc THEN add_generator_dep(o.s, filename)
                ELSE IF o.exc = ENOENT
                    THEN LET d == dirname(filename)
                             a == add_generator_dep(
                                      o.s, IF d = <<>> THEN <<".">> ELSE d)
                         IN Raise(a.s, ENOENT)
                ELSE o
       ELSE builtin_open(t.s, filename, outcome)

\* write_gitignore that lists the registry as it was before the call
write_gitignore_stale(s, filename0) ==
    LET filename == IF filename0 = NoneOpt
                        THEN <<builddir, ".gitignore">>
                        ELSE filename0[1]
        t == add_target(s, filename, NoRuleHash)
    IN IF t.exc # NoExc THEN t
       ELSE Ok([t.s EXCEPT !.manifest =
                   [filename |-> filename,
                    lines |-> [x \in DOMAIN s.targets |->
                                   relpath(x, dirname(filename))]]], <<>>)

write_gitignore(s, filename0) ==
    LET filename == IF filename0 = NoneOpt
                        THEN <<builddir, ".gitignore">>
                        ELSE filename0[1]
        t == add_target(s, filename, NoRuleHash)
    IN IF t.exc # NoExc THEN t
       ELSE Ok([t.s EXCEPT !.manifest =
                   [filename |-> filename,
                    lines |-> [x \in DOMAIN t.s.targets |->
                                   relpath(x, dirname(filename))]]], <<>>)

\* the %s/reconfigure-%s path of the reconfigure script
reconfigure == <<builddir, "reconfigure-build.ninja">>

\* a path used as a command template
literal(p) == [i \in DOMAIN p |-> [kind |-> "lit", text |-> p[i]]]

\* Ninja.__init__: the session after construction
Ninja_init(standalone0, debug0) ==
    LET s0 == [global_vars |-> <<>>, targets |-> <<>>, rules |-> <<>>,
               generator_deps |-> {}, output |-> <<>>, closed |-> FALSE,
               renames |-> 0,
               manifest |-> [filename |-> <<>>, lines |-> <<>>],
               standalone |-> standalone0, debug |-> debug0]
        s1 == add_generator_dep(s0, module_file).s
        s2 == add_generator_dep(s1, ninja_syntax_file).s
        s3 == add_generator_dep(s2, module_file \o <<"..", "ostree.py">>).s
        s4 == add_generator_dep(s3, module_file \o <<"..", "multistrap.py">>).s
        s5 == variable(s4, "builddir", builddir, 0).s
        s6 == build(s5, PyStr(<<".FORCE">>), "phony", PyNone, FALSE, <<>>).s
        s7 == IF standalone0
                  THEN rule(add_target(s6, reconfigure, NoRuleHash).s,
                            "configure", <<literal(reconfigure)>>,
                            <<<<"generator", TRUE>>>>).s
                  ELSE s6
        s8 == add_target(s7, <<builddir, ".ninja_deps">>, NoRuleHash).s
    IN add_target(s8, <<builddir, ".ninja_log">>, NoRuleHash).s

-----------------------------------------------------------------------------
(* Templates *)

Lit(text) == [kind |-> "lit", text |-> text]
Bare(name) == [kind |-> "bare", text |-> name]        \* $name
Braced(name) == [kind |-> "braced", text |-> name]    \* ${name}
Escaped == [kind |-> "escaped", text |-> "$"]         \* $$
Stray == [kind |-> "stray", text |-> "$"]             \* $ before no name
Indent == [kind |-> "indent", text |-> " "]           \* common indentation

\* textwrap.dedent
dedent(text) == SelectSeq(text, LAMBDA tok : tok.kind # "indent")

vars_in_text(text) ==
    {text[i].text : i \in {j \in DOMAIN text : text[j].kind \in {"bare", "braced"}}}

vars_in(items0) ==
    LET items == as_list(items0) IN
    IF \E i \in DOMAIN items : \E j \in DOMAIN items[i] : items[i][j].kind = "stray"
        THEN [exc |-> BadEscape, ret |-> {}]
        ELSE [exc |-> NoExc,
              ret |-> UNION {vars_in_text(items[i]) : i \in DOMAIN items}]

\* ninja_syntax.expand: local_vars first, then vars, '' for an unknown name
expand_token(tok, vs, local_vars) ==
    IF tok.kind \in {"bare", "braced"}
        THEN IF tok.text \in Keys(local_vars) THEN Get(local_vars, tok.text)
             ELSE IF tok.text \in DOMAIN vs THEN vs[tok.text]
             ELSE ""
        ELSE tok.text

expand(text, vs, local_vars) ==
    LET e == [i \in DOMAIN text |-> expand_token(text[i], vs, local_vars)]
    IN SelectSeq(e, LAMBDA c : c # "")

-----------------------------------------------------------------------------
(* class Rule *)

\* Rule.__init__: the arguments are a record a
Rule_init(a) ==
    LET vc == vars_in(PyStr(a.command))
        vi == vars_in(a.inputs)
        vo == vars_in(a.outputs)
        vs == vc.ret \cup vi.ret \cup vo.ret
    IN IF vc.exc # NoExc \/ vi.exc # NoExc \/ vo.exc # NoExc
           THEN [exc |-> BadEscape, ret |-> <<>>]
           ELSE [exc |-> NoExc,
                 ret |-> [name |-> a.name,
                          command |-> dedent(a.command),
                          outputs |-> as_list(a.outputs),
                          inputs |-> as_list(a.inputs),
                          order_only |-> as_list(a.order_only),
                          implicit |-> as_list(a.implicit),
                          output_type |-> a.output_type,
                          kwargs |-> a.kwargs,
                          allow_non_identical_duplicates |->
                              a.allow_non_identical_duplicates,
                          vars |-> vs,
                          description |->
                              IF a.description = NoneOpt
                                  THEN ToString(<<a.name, vs>>)
                                  ELSE a.description[1]]]

\* the digest of the arguments in the order they were given
args_digest_unsorted(name, kwargs) ==
    ToString(<<"[:7]", sha256(<<name>> \o kwargs)>>)

\* the _args_digest of a bind: hexdigest()[:7] of the name and sorted arguments
args_digest(name, kwargs) ==
    ToString(<<"[:7]", sha256(<<name>> \o sorted_items(kwargs))>>)

\* the argument check without the global variables
missing_args_without_globals(self, s, kwargs) ==
    (self.vars \ Keys(kwargs)) \ NINJA_AUTO_VARS

\* the argument check of Rule.build
missing_args(self, s, kwargs) ==
    ((self.vars \ Keys(kwargs)) \ DOMAIN s.global_vars) \ NINJA_AUTO_VARS

unexpected_args(self, kwargs) == Keys(kwargs) \ self.vars

expand_all(texts, s, kwargs) ==
    [i \in DOMAIN texts |-> expand(texts[i], s.global_vars, kwargs)]

\* Rule.build: the arguments other than ninja are a record c
Rule_build(self, s, c) ==
    LET outputs0 == as_list(c.outputs)
        inputs0 == as_list(c.inputs)
        order_only0 == as_list(c.order_only)
        implicit0 == as_list(c.implicit)
        n1 == Writer_newline(s)
    IN IF n1.exc # NoExc THEN n1 ELSE
    LET r == rule(n1.s, self.name, <<self.command>>,
                  <<<<"description", self.description>>>> \o self.kwargs)
    IN IF r.exc # NoExc THEN r ELSE
    IF missing_args(self, r.s, c.kwargs) # {} THEN Raise(r.s, MissingArguments) ELSE
    IF unexpected_args(self, c.kwargs) # {} THEN Raise(r.s, UnexpectedArguments) ELSE
    LET kwargs == IF "_args_digest" \in self.vars
                      THEN Put(c.kwargs, "_args_digest",
                               args_digest(self.name, c.kwargs))
                      ELSE c.kwargs
        outputs == outputs0 \o expand_all(self.outputs, r.s, kwargs)
        inputs == inputs0 \o expand_all(self.inputs, r.s, kwargs)
        implicit == implicit0 \o expand_all(self.implicit, r.s, kwargs)
        n2 == Writer_newline(r.s)
    IN IF n2.exc # NoExc THEN n2 ELSE
    LET b == build(n2.s, PyList(outputs), self.name, PyList(inputs),
                   self.allow_non_identical_duplicates,
                   << <<"implicit", Opt(implicit)>>,
                      <<"order_only", Opt(self.order_only \o order_only0)>>,
                      <<"implicit_outputs", c.implicit_outputs>>,
                      <<"pool", c.pool>>,
                      <<"variables", Opt(kwargs)>> >>)
    IN IF b.exc # NoExc THEN b
       ELSE IF self.output_type = NoneOpt THEN b
       ELSE IF Len(b.ret) # self.output_type[1] THEN Raise(b.s, OutputTypeMismatch)
       ELSE Ok(b.s, [i \in DOMAIN b.ret |-> <<"output_type", b.ret[i]>>])

-----------------------------------------------------------------------------
(* The session as the operations take it *)

Self == [global_vars |-> global_vars, targets |-> targets, rules |-> rules,
         generator_deps |-> generator_deps, output |-> output,
         closed |-> closed, renames |-> renames, manifest |-> manifest,
         standalone |-> standalone, debug |-> debug]

NoCall == [op |-> "__init__", args |-> <<>>, exc |-> NoExc, ret |-> <<>>,
           wrote |-> <<>>, renamed |-> FALSE]

\* a call op(args) with result r is made on the live session
Call(op, args, r) ==
    /\ phase = "live"
    /\ ncalls < MaxCalls
    /\ ncalls' = ncalls + 1
    /\ global_vars' = r.s.global_vars
    /\ targets' = r.s.targets
    /\ rules' = r.s.rules
    /\ generator_deps' = r.s.generator_deps
    /\ output' = r.s.output
    /\ closed' = r.s.closed
    /\ renames' = r.s.renames
    /\ manifest' = r.s.manifest
    /\ UNCHANGED <<standalone, debug>>
    /\ errored' = (errored \/ r.exc \in FatalErrors)
    /\ last' = [op |-> op, args |-> args, exc |-> r.exc,
                ret |-> IF r.exc = NoExc THEN r.ret ELSE <<>>,
                wrote |-> SubSeq(r.s.output, Len(output) + 1, Len(r.s.output)),
                renamed |-> r.s.renames > renames]

Init ==
    /\ standalone \in BOOLEAN
    /\ debug \in BOOLEAN
    /\ LET s == Ninja_init(standalone, debug) IN
        /\ global_vars = s.global_vars
        /\ targets = s.targets
        /\ rules = s.rules
        /\ generator_deps = s.generator_deps
        /\ output = s.output
        /\ closed = s.closed
        /\ renames = s.renames
        /\ manifest = s.manifest
    /\ phase = "live"
    /\ ncalls = 0
    /\ errored = FALSE
    /\ last = NoCall

\* Ninja.variable(key, value, indent)
Variable(calls) ==
    \E c \in calls :
        /\ Call("variable", c, variable(Self, c.key, c.value, c.indent))
        /\ phase' = phase

\* Ninja.build(outputs, rule, inputs, allow_non_identical_duplicates, **kwargs)
Build(calls) ==
    \E c \in calls :
        /\ Call("build", c, build(Self, c.outputs, c.rule, c.inputs,
                                  c.allow_non_identical_duplicates, c.kwargs))
        /\ phase' = phase

\* Ninja.rule(name, *args, **kwargs)
DeclareRule(calls) ==
    \E c \in calls :
        /\ Call("rule", c, rule(Self, c.name, c.args, c.kwargs))
        /\ phase' = phase

\* Ninja.open(filename, mode), with what the file system answers
Open(calls) ==
    \E c \in calls :
        /\ Call("open", c, open(Self, c.filename, c.mode, c.outcome))
        /\ phase' = phase

\* Ninja.add_generator_dep(filename)
AddGeneratorDep(files) ==
    \E f \in files :
        /\ Call("add_generator_dep", f, add_generator_dep(Self, f))
        /\ phase' = phase

\* Ninja.add_target(target, rulehash=None)
AddTarget(calls) ==
    \E c \in calls :
        /\ Call("add_target", c, add_target(Self, c.target, c.rulehash))
        /\ phase' = phase

\* Ninja.write_gitignore(filename=None)
WriteGitignore(files) ==
    \E f \in files :
        /\ Call("write_gitignore", f, write_gitignore(Self, f))
        /\ phase' = phase

Close ==
    /\ Call("close", <<>>, close(Self))
    /\ phase' = phase

\* __exit__: the scoped block is left, with or without an exception
Exit ==
    /\ Call("__exit__", <<>>, close(Self))
    /\ phase' = phase

\* __del__: the finalizer; no call follows it
Del ==
    /\ Call("__del__", <<>>, close(Self))
    /\ phase' = "finalized"

\* Rule(...): the constructor alone, which does not touch the session
NewRule(defs) ==
    \E d \in defs :
        /\ Call("Rule", d, [s |-> Self, exc |-> Rule_init(d).exc, ret |-> <<>>])
        /\ phase' = phase

\* Rule.build(ninja, outputs, ..., **kwargs) on a Rule object built before
Bind(calls) ==
    \E c \in calls :
        /\ Rule_init(c.rule).exc = NoExc
        /\ Call("Rule.build", c, Rule_build(Rule_init(c.rule).ret, Self, c))
        /\ phase' = phase

-----------------------------------------------------------------------------
(* The calls the configuration program makes *)

A == <<"a.o">>
B == <<"b.o">>
C == <<"c.c">>
EmptyPath == <<>>

BuildCall(outputs, inputs, allow, kwargs) ==
    [outputs |-> outputs, rule |-> "phony", inputs |-> inputs,
     allow_non_identical_duplicates |-> allow, kwargs |-> kwargs]

VariableCall(key, value, indent) == [key |-> key, value |-> value, indent |-> indent]

\* the arguments of Rule(...)
RuleDef(name, command, outputs, allow) ==
    [name |-> name, command |-> command, outputs |-> outputs, inputs |-> PyNone,
     description |-> NoneOpt, order_only |-> PyNone, implicit |-> PyNone,
     output_type |-> NoneOpt, allow_non_identical_duplicates |-> allow,
     kwargs |-> <<>>]

cc_command == <<Indent, Lit("cc"), Bare("a"), Braced("b"), Escaped,
                Lit("-o"), Bare("out"), Bare("in")>>

def_cc == RuleDef("cc", cc_command, PyNone, FALSE)
\* the name of def_cc with another command
def_cc_command == RuleDef("cc", cc_command \o <<Lit("-O2")>>, PyNone, FALSE)
\* def_cc with an output template
def_cc_outputs ==
    RuleDef("cc", cc_command, PyList(<<<<Lit("obj"), Bare("a")>>>>), FALSE)
def_tolerant ==
    RuleDef("touch", <<Lit("touch"), Bare("out"), Bare("a")>>, PyNone, TRUE)
def_bad == RuleDef("bad", <<Lit("echo"), Stray, Lit("x")>>, PyNone, FALSE)

\* a rule that asks for the digest of its arguments and names its output
\* after it; it tolerates duplicates, so that every bind returns its outputs
def_digest ==
    RuleDef("gen", <<Lit("gen"), Bare("a"), Bare("b"), Bare("_args_digest")>>,
            PyList(<<<<Lit("out"), Bare("_args_digest")>>>>), TRUE)

\* rules that reference d in their implicit or order-only template alone
def_implicit ==
    [RuleDef("dep", <<Lit("cc"), Bare("a")>>, PyNone, FALSE)
        EXCEPT !.implicit = PyList(<<<<Lit("inc"), Bare("d")>>>>)]
def_order_only ==
    [RuleDef("ord", <<Lit("cc"), Bare("a")>>, PyNone, FALSE)
        EXCEPT !.order_only = PyList(<<<<Lit("dir"), Bare("d")>>>>)]

BindCall(def, outputs, kwargs) ==
    [rule |-> def, outputs |-> outputs, inputs |-> PyList(<<C>>),
     implicit |-> PyNone, order_only |-> PyNone, implicit_outputs |-> NoneOpt,
     pool |-> NoneOpt, kwargs |-> kwargs]

a1 == <<"a", "1">>
a2 == <<"a", "2">>
b2 == <<"b", "2">>
b3 == <<"b", "3">>
c1 == <<"c", "1">>
kw_d1 == <<"d", "1">>

\* the rule() call Rule.build makes for def_cc, and one that differs from it
RuleCalls ==
    LET cc == Rule_init(def_cc).ret IN
    {[name |-> "cc", args |-> <<cc.command>>,
      kwargs |-> <<<<"description", cc.description>>>>],
     [name |-> "cc", args |-> <<cc.command>>,
      kwargs |-> <<<<"description", "compile">>>>]}

OpenCall(filename, mode, outcome) ==
    [filename |-> filename, mode |-> mode, outcome |-> outcome]

AddTargetCalls == {[target |-> A, rulehash |-> NoRuleHash]}

-----------------------------------------------------------------------------
(* The session and its cleanup: variables, tracked reads, errors, close *)

SessionVariableCalls ==
    {VariableCall("builddir", builddir, 0), VariableCall("builddir", "out", 0),
     VariableCall("b", "2", 0), VariableCall("b", "3", 0),
     VariableCall("b", "3", 1)}

SessionBuildCalls ==
    {BuildCall(PyStr(A), PyNone, FALSE, <<>>),
     BuildCall(PyStr(EmptyPath), PyNone, FALSE, <<>>),
     BuildCall(PyStr(ninjafile), PyNone, FALSE, <<>>)}

SessionOpenCalls ==
    {OpenCall(f, "r", o) :
        f \in {<<"conf", "x.cfg">>, <<"missing.cfg">>}, o \in {"ok", ENOENT, EACCES}}
    \cup {OpenCall(<<"gen.pyc">>, "r", "ok")}

SessionGeneratorDeps == {<<".", "conf", "..", "x.cfg">>}

SessionBindCalls ==
    {BindCall(def_cc, PyList(<<A>>), <<a1>>),
     BindCall(def_cc, PyList(<<A>>), <<a1, b2>>)}

Next ==
    \/ Variable(SessionVariableCalls)
    \/ Build(SessionBuildCalls)
    \/ DeclareRule(RuleCalls)
    \/ Open(SessionOpenCalls)
    \/ AddGeneratorDep(SessionGeneratorDeps)
    \/ Close
    \/ Exit
    \/ Del
    \/ NewRule({def_cc, def_bad})
    \/ Bind(SessionBindCalls)

Spec == Init /\ [][Next]_vars

-----------------------------------------------------------------------------
(* The target registry: statements, tracked writes and the manifest *)

RegistryBuildCalls ==
    {BuildCall(o, PyNone, FALSE, <<>>) :
        o \in {PyStr(A), PyList(<<A, B>>), PyList(<<A, A>>), PyList(<<>>),
               PyNone, PyStr(EmptyPath), PyList(<<A, EmptyPath>>)}}
    \cup {BuildCall(o, PyList(<<C>>), FALSE, <<>>) :
        o \in {PyStr(A), PyStr(B), PyList(<<B, A>>)}}
    \cup {BuildCall(o, PyList(<<C>>), TRUE, <<>>) :
        o \in {PyStr(A), PyList(<<B, A>>)}}
    \cup {BuildCall(PyStr(A), PyNone, FALSE, <<<<"implicit_outputs", Opt(<<B>>)>>>>)}

RegistryOpenCalls ==
    {OpenCall(A, "w", "ok"), OpenCall(A, "w", EACCES), OpenCall(A, "a", "ok")}

RegistryGitignoreFiles == {NoneOpt, Opt(A), Opt(<<"sub", ".gitignore">>)}

RegistryBindCalls ==
    {BindCall(def_cc, PyList(<<A>>), <<a1, b2>>),
     BindCall(def_tolerant, PyList(<<A>>), <<a1>>)}

NextRegistry ==
    \/ Build(RegistryBuildCalls)
    \/ Open(RegistryOpenCalls)
    \/ AddTarget(AddTargetCalls)
    \/ WriteGitignore(RegistryGitignoreFiles)
    \/ Bind(RegistryBindCalls)
    \/ Close

SpecRegistry == Init /\ [][NextRegistry]_vars

-----------------------------------------------------------------------------
(* Rules and their binding *)

BindVariableCalls ==
    {VariableCall("b", "2", 0), VariableCall("b", "3", 0)}

BindBuildCalls ==
    {BuildCall(PyStr(A), PyNone, FALSE, <<>>),
     BuildCall(PyStr(<<"obj", "1">>), PyNone, FALSE, <<>>)}

BindCalls ==
    {BindCall(def_cc, PyList(<<A>>), k) :
        k \in {<<a1, b2>>, <<b2, a1>>, <<a1, b3>>, <<a1>>, <<a1, b2, c1>>}}
    \cup {BindCall(def_cc, PyNone, <<a1, b2>>),
          BindCall(def_cc, PyList(<<A, A>>), <<a1, b2>>),
          BindCall(def_cc_command, PyList(<<B>>), <<a1, b2>>),
          BindCall(def_cc_command, PyList(<<B>>), <<a1>>),
          BindCall(def_cc_outputs, PyNone, <<a1, b2>>),
          BindCall(def_tolerant, PyList(<<A>>), <<a1>>),
          BindCall(def_tolerant, PyList(<<A>>), <<a2>>)}

NextBind ==
    \/ Bind(BindCalls)
    \/ Variable(BindVariableCalls)
    \/ DeclareRule(RuleCalls)
    \/ NewRule({def_cc, def_cc_command, def_cc_outputs, def_tolerant, def_bad})
    \/ Build(BindBuildCalls)
    \/ Close

SpecBind == Init /\ [][NextBind]_vars

-----------------------------------------------------------------------------
(* The digest of the arguments of a bind *)

\* binds of def_digest: the keywords in both orders and with other values,
\* with and without an explicit output and input
DigestCalls ==
    {[BindCall(def_digest, o[1], k) EXCEPT !.inputs = o[2]] :
        o \in {<<PyNone, PyList(<<C>>)>>, <<PyList(<<A>>), PyNone>>},
        k \in {<<a1, b2>>, <<b2, a1>>, <<a1, b3>>, <<a2, b2>>}}

NextDigest ==
    \/ Bind(DigestCalls)
    \/ Close

SpecDigest == Init /\ [][NextDigest]_vars

-----------------------------------------------------------------------------
(* The variables of the templates of a rule *)

TemplateCalls ==
    {BindCall(def, PyList(<<o>>), k) :
        def \in {def_implicit, def_order_only}, o \in {A, B},
        k \in {<<a1>>, <<a1, kw_d1>>}}

TemplateVariableCalls == {VariableCall("d", "1", 0)}

NextTemplates ==
    \/ Bind(TemplateCalls)
    \/ Variable(TemplateVariableCalls)
    \/ NewRule({def_implicit, def_order_only})
    \/ Close

SpecTemplates == Init /\ [][NextTemplates]_vars

-----------------------------------------------------------------------------
(* Properties *)

\* the lines a step appends to the output
Appended == SubSeq(output', Len(output) + 1, Len(output'))

\* the build statements among some lines
Statements(lines) == SelectSeq(lines, LAMBDA l : l.kind = "build")

CloseOps == {"close", "__exit__", "__del__"}

\* no two build statements of the graph share an output
C1_NoSharedOutput ==
    LET st == Statements(output) IN
    \A i, j \in DOMAIN st :
        i # j => Range(st[i].outputs) \cap Range(st[j].outputs) = {}

\* a step writes a statement only for outputs it registers
C1_WrittenOnlyIfUnregistered ==
    LET st == Statements(Appended) IN
    \A i \in DOMAIN st : \A q \in Range(st[i].outputs) :
        q \notin DOMAIN targets /\ q \in DOMAIN targets'

\* C1: no path is among the outputs (the outputs argument of the emit) of two
\* build statements written to the graph, and
\* a step writes a build statement only if each of its outputs was
\* unregistered before the call (and is registered after it).
C1_OutputsDeclaredOnce ==
    [](C1_NoSharedOutput) /\ [][C1_WrittenOnlyIfUnregistered]_vars

\* C1 witness: a two-output statement is in the graph and the last call, an
\* emit naming one of its outputs with another fingerprint, was refused.
C1_Witness ==
    /\ \E i \in DOMAIN output :
        /\ output[i].kind = "build"
        /\ Len(output[i].outputs) > 1
        /\ last.op = "build"
        /\ Range(as_list(last.args.outputs)) \cap Range(output[i].outputs) # {}
    /\ last.exc = DuplicateTarget
    /\ last.wrote = <<>>

\* C2: once a declaration has raised a fatal error, no later call renames the
\* temporary file onto the final output path.
C2_NoRenameAfterError == [][errored => renames' = renames]_vars

\* what a step keeps of a closed output
C5_Step ==
    /\ (last'.op \in CloseOps /\ last'.exc = NoExc) => closed'
    /\ closed => closed'
    /\ (closed /\ last'.op \in CloseOps) =>
        /\ last'.exc = NoExc
        /\ last'.wrote = <<>>
        /\ ~last'.renamed
        /\ UNCHANGED <<global_vars, targets, rules, generator_deps, output,
                       closed, renames, manifest>>

\* C5: a close call that returns leaves the output closed, the output stays
\* closed, and every close call (close, __exit__, __del__) on a closed output
\* raises nothing, writes nothing and renames nothing; the temporary file is
\* renamed at most once.
C5_CloseIdempotent == [](renames <= 1) /\ [][C5_Step]_vars

\* C5 witness: a close call made after the rename, which did nothing.
C5_Witness ==
    /\ last.op \in CloseOps
    /\ last.exc = NoExc
    /\ ~last.renamed
    /\ last.wrote = <<>>
    /\ renames = 1
    /\ closed

\* the Rule object of a bind call, and the contents its bind declares to
\* Ninja.rule
BoundRule(c) == Rule_init(c.rule).ret

DeclaredContents(def) ==
    LET r == Rule_init(def).ret
    IN <<<<r.command>>, <<<<"description", r.description>>>> \o r.kwargs>>

SameContents(name, contents) ==
    /\ rules[name][1] = contents[1]
    /\ dict_eq(rules[name][2], contents[2])

\* a bind that repeats the bind before it
C3_Step ==
    (/\ last.op = "Rule.build"
     /\ last.exc = NoExc
     /\ Statements(last.wrote) # <<>>
     /\ ~closed
     /\ last'.op = "Rule.build"
     /\ last'.args = last.args)
    => /\ last'.exc = NoExc
       /\ last'.ret = last.ret
       /\ targets' = targets
       /\ Statements(Appended) = <<>>
       /\ Len(SelectSeq(Statements(output'),
                        LAMBDA l : l = Statements(last.wrote)[1])) = 1

\* C3: a bind repeated with identical arguments right after a bind that
\* returned and wrote its statement (the output still open) raises nothing,
\* returns the same outputs, leaves the registry unchanged and writes no
\* statement, so that the graph holds the statement exactly once.
C3_SecondBindNoOp == [][C3_Step]_vars

\* the fingerprint Ninja.build computes for an emit call c
Fingerprint(c) == sha256(<<c.rule, as_list(c.inputs), sorted_items(c.kwargs)>>)

\* the outputs of an emit call registered with another fingerprint
Conflicting(c) ==
    {q \in Range(as_list(c.outputs)) :
        q \in DOMAIN targets /\ targets[q] # Fingerprint(c)}

\* an emit of a conflicting output
C4_Step ==
    (last'.op = "build" /\ Conflicting(last'.args) # {})
    => /\ Statements(Appended) = <<>>
       /\ \A q \in DOMAIN targets :
            q \in DOMAIN targets' /\ targets'[q] = targets[q]
       /\ IF last'.args.allow_non_identical_duplicates
              THEN last'.exc = NoExc
              ELSE last'.exc = DuplicateTarget

\* C4: an emit naming an output registered with a different fingerprint
\* writes no statement and changes no registered fingerprint; it raises
\* DuplicateTarget when allowNonIdenticalDuplicates is false and raises
\* nothing when it is true.
C4_ConflictRejected == [][C4_Step]_vars

\* the argument check as the claim states it
C6_Missing(c) ==
    BoundRule(c).vars \
        (Keys(c.kwargs) \cup DOMAIN global_vars \cup {"in", "out", "_args_digest"})

C6_Unexpected(c) == Keys(c.kwargs) \ BoundRule(c).vars

C6_Validates(c) ==
    /\ (last'.exc = MissingArguments) <=> (C6_Missing(c) # {})
    /\ (last'.exc = UnexpectedArguments) <=>
           (C6_Missing(c) = {} /\ C6_Unexpected(c) # {})
    /\ last'.exc \in {MissingArguments, UnexpectedArguments} =>
           (Statements(Appended) = <<>> /\ targets' = targets)

\* C6 as claimed: every bind on an open output raises the missing-argument
\* error exactly when a variable of the rule is neither supplied, global nor
\* builtin, otherwise the unexpected-argument error exactly when a supplied
\* name is no variable of the rule, and in both cases writes no statement and
\* registers no target.
C6_AsClaimed ==
    [][(last'.op = "Rule.build" /\ ~closed) => C6_Validates(last'.args)]_vars

\* the rule registration that precedes the argument check succeeds
C6_Registers(c) ==
    \/ BoundRule(c).name \notin DOMAIN rules
    \/ SameContents(BoundRule(c).name, DeclaredContents(c.rule))

\* C6 amended: a bind on an open output whose rule registration succeeds (the
\* name is new or registered with identical contents) raises the
\* missing-argument error exactly when a variable of the rule is neither
\* supplied, global nor builtin, otherwise the unexpected-argument error
\* exactly when a supplied name is no variable of the rule; in both cases it
\* writes no build statement and registers no target.  The registration
\* precedes the check and may have written the rule definition.
C6_ValidatesOnceRegistered ==
    [][(last'.op = "Rule.build" /\ ~closed /\ C6_Registers(last'.args))
            => C6_Validates(last'.args)]_vars

\* C6 witness: a bind raised the missing-argument error after its rule
\* definition was written, and left no statement.
C6_Witness ==
    /\ last.op = "Rule.build"
    /\ last.exc = MissingArguments
    /\ \E i \in DOMAIN last.wrote : last.wrote[i].kind = "rule"
    /\ Statements(last.wrote) = <<>>

\* the graph holds one global assignment of a name at most
C7_OneAssignment ==
    \A i, j \in DOMAIN output :
        (/\ output[i].kind = "variable" /\ output[i].indent = 0
         /\ output[j].kind = "variable" /\ output[j].indent = 0
         /\ output[i].key = output[j].key) => i = j

C7_Step ==
    /\ \A k \in DOMAIN global_vars :
        k \in DOMAIN global_vars' /\ global_vars'[k] = global_vars[k]
    /\ last'.op # "variable" => global_vars' = global_vars
    /\ last'.op = "variable" =>
        LET c == last'.args IN
        IF c.indent # 0 THEN global_vars' = global_vars
        ELSE IF c.key \notin DOMAIN global_vars
            THEN global_vars' = (c.key :> c.value) @@ global_vars
        ELSE /\ global_vars' = global_vars
             /\ Appended = <<>>
             /\ last'.exc = IF global_vars[c.key] = c.value
                                THEN NoExc
                                ELSE VariableRedefinition

\* C7: a global variable keeps the first value set for it; setting it again
\* to that value raises nothing and writes nothing, setting it to another
\* value raises the redefinition error and leaves the table unchanged; the
\* graph holds at most one global assignment of a name.
C7_WriteOnce == [](C7_OneAssignment) /\ [][C7_Step]_vars

\* C7 witness: "b" was set again to the value it holds: nothing raised,
\* nothing written.
C7_Witness ==
    /\ last.op = "variable"
    /\ last.args.key = "b"
    /\ last.args.indent = 0
    /\ last.exc = NoExc
    /\ last.wrote = <<>>
    /\ ~closed

\* a redeclaration of a registered name: a no-op when the contents given to
\* Ninja.rule are the registered ones, the redefinition error otherwise
C8_Redeclared(name, contents) ==
    name \in DOMAIN rules =>
        /\ rules' = rules
        /\ \A i \in DOMAIN Appended : Appended[i].kind # "rule"
        /\ (last'.exc = RuleRedefinition) <=> ~SameContents(name, contents)

\* two rule definitions differ in a field the claim names
C8_Differ(d1, d2) ==
    \E f \in {"command", "description", "outputs", "inputs", "order_only",
              "implicit", "kwargs"} : d1[f] # d2[f]

C8_Step ==
    /\ last'.op = "rule" =>
        C8_Redeclared(last'.args.name, <<last'.args.args, last'.args.kwargs>>)
    /\ (last'.op = "Rule.build" /\ ~closed) =>
        C8_Redeclared(last'.args.rule.name, DeclaredContents(last'.args.rule))

Normalized(f) == replace_pyc(relpath(f, <<>>))

\* what a read-mode open does to the dependency set
C9_Step ==
    (last'.op = "open" /\ last'.args.mode = "r") =>
        LET c == last'.args
            d == dirname(c.filename)
        IN IF c.outcome = "ok"
               THEN /\ last'.exc = NoExc
                    /\ generator_deps' = generator_deps \cup {Normalized(c.filename)}
           ELSE IF c.outcome = ENOENT
               THEN /\ last'.exc = ENOENT
                    /\ generator_deps' = generator_deps \cup
                           {Normalized(IF d = <<>> THEN <<".">> ELSE d)}
                    /\ Normalized(c.filename) \in generator_deps' =>
                           Normalized(c.filename) \in generator_deps
           ELSE /\ last'.exc = c.outcome
                /\ generator_deps' = generator_deps

\* C9: a tracked read adds the normalized path when the open succeeds; on
\* not-found it adds the containing directory ("." when there is none), not
\* the path, and raises not-found; on another failure it raises it and leaves
\* the dependency set unchanged.
C9_TrackedRead == [][C9_Step]_vars

\* C9 witness: missing.cfg was not found: "." is a dependency, missing.cfg
\* is not.
C9_Witness ==
    /\ last.op = "open"
    /\ last.args.filename = <<"missing.cfg">>
    /\ last.exc = ENOENT
    /\ <<".">> \in generator_deps
    /\ <<"missing.cfg">> \notin generator_deps

\* the step claims path q: a tracked write-open of it, the manifest written
\* to it, or an emit naming it first among its outputs
C10_Claims(q) ==
    \/ /\ last'.op = "open"
       /\ last'.args.mode = "w"
       /\ last'.args.filename = q
    \/ /\ last'.op = "write_gitignore"
       /\ last'.args = Opt(q)
    \/ /\ last'.op = "build"
       /\ ~last'.args.allow_non_identical_duplicates
       /\ as_list(last'.args.outputs) # <<>>
       /\ Head(as_list(last'.args.outputs)) = q

\* a claim that follows the tracked write-open of its path
C10_Step ==
    (/\ last.op = "open"
     /\ last.args.mode = "w"
     /\ last.exc = NoExc
     /\ C10_Claims(last.args.filename))
    => last'.exc = DuplicateTarget

\* C10: a claim of a path that the call before, a tracked write-open that
\* returned, has registered is rejected with DuplicateTarget.
C10_TrackedWriteExclusive == [][C10_Step]_vars

\* C11: every cleanup call (close, __exit__, __del__) leaves the temporary
\* file closed and renamed onto the final output path, whatever declarations
\* and errors came before it.
C11_CleanupCommits ==
    [][last'.op \in CloseOps => (closed' /\ renames' = 1)]_vars

\* a cleanup call closes the output of a standalone session
C12_Closes == standalone /\ ~closed /\ closed' /\ last'.op \in CloseOps

\* the statement that regenerates the graph file from the dependencies deps
C12_Regenerates(l, deps) ==
    /\ l.kind = "build"
    /\ l.outputs = <<ninjafile>>
    /\ l.rule = "configure"
    /\ Range(l.inputs) = deps

C12_Step ==
    /\ generator_deps \subseteq generator_deps'
    /\ C12_Closes =>
        /\ generator_deps' = generator_deps
        /\ \A i \in DOMAIN Statements(Appended) :
               C12_Regenerates(Statements(Appended)[i], generator_deps)
        /\ ninjafile \notin DOMAIN targets => Len(Statements(Appended)) = 1

\* C12: no step removes a generator dependency, and the statement a cleanup
\* call writes when it closes a standalone session has the graph file as its
\* output, the rule "configure" and as inputs every dependency of the set,
\* hence every dependency added before the close; it is written whenever
\* the graph file was not registered as a target before.
C12_DependenciesListed == [][C12_Step]_vars

\* C12 witness: a standalone session was closed after a tracked read added
\* conf/x.cfg, and the last statement of the graph lists it among its inputs.
C12_Witness ==
    /\ standalone
    /\ closed
    /\ last.op \in CloseOps
    /\ Statements(last.wrote) # <<>>
    /\ <<"conf", "x.cfg">> \in Range(Statements(last.wrote)[1].inputs)
    /\ Statements(last.wrote)[1].outputs = <<ninjafile>>

\* the outputs argument of an emit is an empty string, None or an empty list
C13_NoOutput(c) == c.outputs \in {PyStr(EmptyPath), PyNone, PyList(<<>>)}

\* C13: an emit on an open output whose outputs argument is an empty string,
\* None or an empty list raises the invalid-target error, writes no build
\* statement and leaves the target registry unchanged.
C13_EmptyOutputRejected ==
    [][(last'.op = "build" /\ ~closed /\ C13_NoOutput(last'.args))
          => /\ last'.exc = InvalidTarget
             /\ Statements(Appended) = <<>>
             /\ targets' = targets]_vars

\* a bind of def_digest that returned
C14_Bound(l) ==
    l.op = "Rule.build" /\ l.exc = NoExc /\ l.args.rule = def_digest

\* the digest a bind of def_digest injected, read off the output it returned
\* last, the expansion of out/$_args_digest
C14_Digest(l) == l.ret[Len(l.ret)][2]

\* C14: two consecutive binds of a rule that asks for _args_digest get the
\* same digest exactly when their concrete keyword arguments are the same
\* mapping, whatever the order of the keywords and whatever explicit outputs
\* and inputs are passed.
C14_DigestOfArguments ==
    [][(C14_Bound(last) /\ C14_Bound(last'))
          => ((C14_Digest(last') = C14_Digest(last))
                <=> dict_eq(last'.args.kwargs, last.args.kwargs))]_vars

\* C14 witness: the bind b=2, a=1 with an explicit output followed the bind
\* a=1, b=2 without one, and got the same digest.
C14_Witness ==
    /\ C14_Bound(last)
    /\ last.args.kwargs = <<b2, a1>>
    /\ last.args.outputs = PyList(<<A>>)
    /\ Len(last.ret) = 2
    /\ \E i \in DOMAIN output :
          /\ output[i].kind = "build"
          /\ output[i].outputs = <<<<"out", C14_Digest(last)>>>>
          /\ Get(output[i].kwargs, "variables")[1][1] = a1

\* the path an entry of the manifest names, seen from the working directory
C15_Resolved(line) == normpath_from(<<>>, dirname(manifest'.filename) \o line)

C15_Step ==
    /\ (last'.op = "write_gitignore" /\ last'.exc = NoExc) =>
        /\ manifest'.filename \in DOMAIN targets'
        /\ DOMAIN manifest'.lines = DOMAIN targets'
        /\ \A x \in DOMAIN targets' :
               C15_Resolved(manifest'.lines[x]) = normpath_from(<<>>, x)
        /\ \A i \in DOMAIN Statements(output') :
               Range(Statements(output')[i].outputs) \subseteq DOMAIN manifest'.lines
    /\ (last'.op # "write_gitignore" \/ last'.exc # NoExc) => manifest' = manifest

\* C15: a write_gitignore call that returns has written a manifest with one
\* entry for each path of the target registry as it is after registering the
\* manifest path itself, each entry naming its path relative to the
\* directory of the manifest; every output of every build statement written
\* so far has an entry.  Nothing else writes the manifest.
C15_ManifestListsRegistry == [][C15_Step]_vars

\* C15 witness: the default manifest was written after "cc" was bound with
\* outputs a.o, and lists a.o as ../a.o.
C15_Witness ==
    /\ last.op = "write_gitignore"
    /\ last.args = NoneOpt
    /\ last.exc = NoExc
    /\ A \in DOMAIN manifest.lines
    /\ manifest.lines[A] = <<"..", "a.o">>
    /\ \E i \in DOMAIN output :
          /\ output[i].kind = "build"
          /\ output[i].rule = "cc"
          /\ output[i].outputs = <<A>>

\* the variables referenced in all the template fields of a rule definition
C16_TemplateVars(def) ==
    vars_in(PyStr(def.command)).ret \cup vars_in(def.outputs).ret
        \cup vars_in(def.inputs).ret \cup vars_in(def.order_only).ret
        \cup vars_in(def.implicit).ret

\* the variables of a rule nothing supplies: no keyword, no global, no builtin
C16_Missing(c) ==
    C16_TemplateVars(c.rule) \
        (Keys(c.kwargs) \cup DOMAIN global_vars \cup NINJA_AUTO_VARS)

\* C16: the variable set of a bound rule is the union of the variables of
\* its command, output, input, order-only and implicit templates; a bind on
\* an open output (its rule registration succeeding) raises the
\* missing-argument error exactly when one of them is not supplied, and
\* does not raise the unexpected-argument error for keywords among them.
C16_AllTemplatesCount ==
    [][(last'.op = "Rule.build" /\ ~closed /\ C6_Registers(last'.args))
          => LET c == last'.args IN
             /\ BoundRule(c).vars = C16_TemplateVars(c.rule)
             /\ (last'.exc = MissingArguments) <=> (C16_Missing(c) # {})
             /\ Keys(c.kwargs) \subseteq C16_TemplateVars(c.rule)
                    => last'.exc # UnexpectedArguments]_vars

\* C17: an emit that raises DuplicateTarget or the invalid-target error leaves
\* the target registry as it was before the call.
C17_FailedEmitKeepsRegistry ==
    [][(last'.op = "build" /\ last'.exc \in {DuplicateTarget, InvalidTarget})
          => targets' = targets]_vars

\* the build statements of the graph that have q among their outputs
C18_Producers(q) ==
    {i \in DOMAIN Statements(output) : q \in Range(Statements(output)[i].outputs)}

\* C18: every path registered with a fingerprint is an output of exactly one
\* build statement of the graph, and every output path the last emit or bind
\* returned is registered.
C18_RegistryMatchesGraph ==
    /\ \A q \in DOMAIN targets :
          targets[q] # NoRuleHash => Cardinality(C18_Producers(q)) = 1
    /\ (last.op \in {"build", "Rule.build"} /\ last.exc = NoExc)
          => Range(last.ret) \subseteq DOMAIN targets

\* two bind calls that differ at most in the order of their keywords
C19_SameArguments(c1_, c2_) ==
    /\ [c1_ EXCEPT !.kwargs = <<>>] = [c2_ EXCEPT !.kwargs = <<>>]
    /\ dict_eq(c1_.kwargs, c2_.kwargs)

\* C19: a bind that repeats the bind before it (which returned outputs) with
\* the same keyword arguments in any order is an identical duplicate: it
\* raises no DuplicateTarget, writes no statement and leaves the registry
\* unchanged.
C19_KeywordOrderIrrelevant ==
    [][(/\ last.op = "Rule.build"
        /\ last.exc = NoExc
        /\ last.ret # <<>>
        /\ ~closed
        /\ last'.op = "Rule.build"
        /\ C19_SameArguments(last'.args, last.args))
          => /\ last'.exc = NoExc
             /\ Statements(Appended) = <<>>
             /\ targets' = targets]_vars

\* the implicit outputs of a build statement of the graph
C20_ImplicitOutputs(l) ==
    IF "implicit_outputs" \in Keys(l.kwargs)
           /\ Get(l.kwargs, "implicit_outputs") # NoneOpt
        THEN Range(Get(l.kwargs, "implicit_outputs")[1])
        ELSE {}

\* the paths a build statement produces
C20_Produced(l) == Range(l.outputs) \cup C20_ImplicitOutputs(l)

\* C20: no path is produced, as an output or as an implicit output, by two
\* build statements written to the graph: the emit of a second statement
\* for a path that a written statement produces is rejected.
C20_ImplicitOutputsProtected ==
    LET st == Statements(output) IN
    \A i, j \in DOMAIN st :
        i # j => C20_Produced(st[i]) \cap C20_Produced(st[j]) = {}

====
